---- MODULE Spec2Model ----
(***************************************************************************)
(* A model of src/index.js: the GitHub API client factory (getGithubAPI)   *)
(* with its credential acquisition flow (getToken, checkCredentials,       *)
(* promptForToken), dispatchEvent and resolveGithubProject.                *)
(*                                                                         *)
(* Strings the code inspects character by character (remote URLs, owner,   *)
(* repo, event types, messages) are sequences of one-character strings.    *)
(* A function that may throw returns a completion record: Normal(v) or     *)
(* Throw(m).                                                               *)
(***************************************************************************)
EXTENDS Integers, Sequences, FiniteSets, TLC

\* ------------------------------------------------------------------------
\* Bounds of the model
\* ------------------------------------------------------------------------
\* number of top-level library calls made by one process
MaxCalls == 2
\* longest enumerated owner / repo segment of a remote URL
MaxSegLen == 2

\* ------------------------------------------------------------------------
\* Completion records and absent values
\* ------------------------------------------------------------------------
\* an absent token, login or cached client
None == "undefined"

\* an absent character string (a value no string of the program equals)
Undef == <<"undefined">>

Normal(v) == [type |-> "normal", value |-> v]

Throw(m) == [type |-> "throw", value |-> m]

\* ------------------------------------------------------------------------
\* Character strings
\* ------------------------------------------------------------------------
\* case folding of the /i flag, over the letters the model uses
Lower(c) ==
    CASE c = "G" -> "g"
      [] c = "I" -> "i"
      [] c = "T" -> "t"
      [] OTHER -> c

LowerStr(s) == [k \in 1..Len(s) |-> Lower(s[k])]

\* String.prototype.includes
Contains(s, sub) ==
    \E i \in 0..(Len(s) - Len(sub)) : SubSeq(s, i + 1, i + Len(sub)) = sub

EndsWith(s, suf) ==
    Len(s) >= Len(suf) /\ SubSeq(s, Len(s) - Len(suf) + 1, Len(s)) = suf

\* the one element of a singleton set; Pick({e(x) : x \in {v}}) is e(v) with
\* v evaluated once
Pick(S) == CHOOSE x \in S : TRUE

\* the parts of s between the positions seps of its separators
SplitAt(s, seps) ==
    [j \in 1..(Cardinality(seps) + 1) |->
        LET before == {k \in seps : Cardinality({x \in seps : x < k}) = j - 2}
            at == {k \in seps : Cardinality({x \in seps : x < k}) = j - 1}
            first == IF before = {} THEN 1 ELSE Pick(before) + 1
            last == IF at = {} THEN Len(s) ELSE Pick(at) - 1
        IN  SubSeq(s, first, last)]

\* String.prototype.split(sep) for a one-character separator
Split(str, sep) ==
    Pick({ SplitAt(s, {k \in 1..Len(s) : s[k] = sep}) : s \in {str} })

RECURSIVE Join(_, _)
\* Array.prototype.join(sep)
Join(parts, sep) ==
    IF parts = <<>> THEN <<>>
    ELSE IF Len(parts) = 1 THEN parts[1]
    ELSE parts[1] \o <<sep>> \o Join(Tail(parts), sep)

STR_github_com == <<"g", "i", "t", "h", "u", "b", ".", "c", "o", "m">>
STR_dot_git == <<".", "g", "i", "t">>
STR_git_at == <<"g", "i", "t", "@">>
STR_https == <<"h", "t", "t", "p", "s", ":", "/", "/">>

\* ------------------------------------------------------------------------
\* resolveGithubProject (src/index.js:191-216)
\* ------------------------------------------------------------------------
\* the literal part of /github.com[:/](.+?)(?:\.git)?$/i ; "ANY" is the
\* unescaped dot, which matches any character
RE_marker == <<"g", "i", "t", "h", "u", "b", "ANY", "c", "o", "m">>

\* the pattern can match starting at position i of url: the marker, one of
\* ':' or '/', and at least one character for (.+?)
RE_matchesAt(url, i) ==
    /\ i + Len(RE_marker) + 1 <= Len(url)
    /\ \A k \in 1..Len(RE_marker) :
          RE_marker[k] = "ANY" \/ Lower(url[i + k - 1]) = RE_marker[k]
    /\ url[i + Len(RE_marker)] \in {":", "/"}

\* the positions of url at which the pattern can match
RE_starts(url) == {i \in 1..Len(url) : RE_matchesAt(url, i)}

\* the least element of a non-empty set of numbers
Min(S) == CHOOSE k \in S : \A j \in S : k <= j

\* (?:\.git)?$ matches tail
RE_tailMatches(tail) == tail = <<>> \/ LowerStr(tail) = STR_dot_git

\* (.+) on rest: the group greedy, a trailing .git stays in the capture
RE_greedyGroup(rest) == rest

\* (.+?) on rest: the fewest characters, at least one, that leave a tail
\* (?:\.git)?$ matches
RE_lazyGroup(rest) ==
    SubSeq(rest, 1,
           Min({k \in 1..Len(rest) : RE_tailMatches(SubSeq(rest, k + 1, Len(rest)))}))

\* the capture of the leftmost match
RE_capture(url, starts) ==
    IF starts = {}
    THEN Undef
    ELSE Pick({ RE_lazyGroup(rest) :
                  rest \in {SubSeq(url, Min(starts) + Len(RE_marker) + 1, Len(url))} })

\* url.match(/github.com[:/](.+?)(?:\.git)?$/i) ?? [] , second element:
\* the capture of the leftmost match, absent when nothing matches
RE_repoId(url) ==
    Pick({ Pick({ RE_capture(u, starts) : starts \in {RE_starts(u)} }) : u \in {url} })

\* run(x): the trimmed output of a git command, or a throw when it fails
run(out) == IF out = Undef THEN Throw("exec") ELSE Normal(out)

\* what `git rev-parse --abbrev-ref <branch>@{upstream}` prints: the
\* upstream's remote name, '/', the upstream branch
upstreamRef(g) ==
    IF g.remote = Undef THEN Undef ELSE g.remote \o <<"/">> \o g.merge

\* what `git remote get-url <name>` prints
remoteUrl(g, name) ==
    IF name \in DOMAIN g.remotes THEN g.remotes[name] ELSE Undef

\* lines 204-212: owner and repo out of the captured repoId
ownerAndRepo(repoId, parts) ==
    LET owner == IF Len(parts) >= 1 THEN parts[1] ELSE Undef
        repo == IF Len(parts) >= 2 THEN parts[2] ELSE Undef
    IN  IF owner \in {Undef, <<>>} \/ repo \in {Undef, <<>>}
        THEN Throw("NOT_GITHUB_REMOTE")
        ELSE Normal([owner |-> owner, repo |-> repo, repoId |-> repoId])

\* lines 202-212 for the fetch URL url
resolveUrl(url) ==
    Pick({ Pick({ ownerAndRepo(repoId, parts) :
                    parts \in {IF repoId = Undef THEN <<>> ELSE Split(repoId, "/")} }) :
             repoId \in {RE_repoId(url)} })

\* the body of the try block, lines 195-212; g is the directory's git
\* metadata: branch (the current branch, absent outside a repository),
\* remote and merge (the upstream of the branch, absent when none is
\* configured) and remotes (remote name -> fetch URL)
resolveTry(g) ==
    LET currentBranch == run(g.branch)
        remoteBranch == run(upstreamRef(g))
    IN  IF currentBranch.type = "throw" THEN currentBranch
        ELSE IF remoteBranch.type = "throw" THEN remoteBranch
        ELSE Pick({ IF url.type = "throw" THEN url ELSE resolveUrl(url.value) :
                      url \in {run(remoteUrl(g, Split(remoteBranch.value, "/")[1]))} })

ERR_resolve == "Not in a git repository?"

\* lines 195-212 without the try / catch around them
resolveGithubProject_nocatch(g) == resolveTry(g)

\* the catch of lines 213-215 returning an empty description instead of
\* throwing
resolveGithubProject_lenient(g) ==
    Pick({ IF r.type = "throw"
           THEN Normal([owner |-> Undef, repo |-> Undef, repoId |-> Undef])
           ELSE r : r \in {resolveTry(g)} })

resolveGithubProject(g) ==
    Pick({ IF r.type = "throw" THEN Throw(ERR_resolve) ELSE r : r \in {resolveTry(g)} })


\* ------------------------------------------------------------------------
\* State
\* ------------------------------------------------------------------------
VARIABLES
    git,        \* git metadata of the directory (what the git commands answer)
    netrcFile,  \* ~/.netrc as the netrc package presents it: host -> entry
    unreadable, \* reading ~/.netrc raises
    github,     \* the module-level `let github` (line 8)
    pc,         \* where the process is suspended (idle, awaiting I/O, exited)
    op,         \* the exported function the caller invoked
    args,       \* dispatchEvent: to, eventType and the destructured owner, repo, repoId
    via,        \* which call site started the current promptForToken flow
    rc,         \* promptForToken: its rc parameter
    attempts,   \* promptForToken: its attempts parameter
    entered,    \* promptForToken: the name and token the user typed
    token,      \* the token being validated / getGithubAPI's local `token`
    log,        \* what the current top-level call did, in order (event kinds)
    lastCheck,  \* the last checkCredentials call: its token, answer, completion
    result,     \* the completion of the last top-level call
    returned,   \* the clients the factory has returned so far, in order
    nextId,     \* identity of the next object created by `new Octokit`
    calls       \* number of top-level calls started

vars == <<git, netrcFile, unreadable, github, pc, op, args, via, rc, attempts,
          entered, token, log, lastCheck, result, returned, nextId, calls>>

envVars == <<git, netrcFile, unreadable, github>>

\* ------------------------------------------------------------------------
\* Inputs
\* ------------------------------------------------------------------------
Tokens == {"t1", "t2"}
Names == {"u1", "u2"}

\* what the user types at the username / token prompt
Credentials == {[name |-> "u1", token |-> "t1"], [name |-> "u2", token |-> "t2"]}

HOST_github == "github.com"
HOST_api == "api.github.com"
HOST_other == "example.com"

\* what the remote API answers to a call: success, or a failure message
RESP_ok == "ok"
Failures == {"Bad credentials"}
Responses == {RESP_ok} \cup Failures

Entry(l, p) == [login |-> l, password |-> p]

\* the empty object {}
NoRecords == [h \in {} |-> Entry(None, None)]

\* {...a, [h]: e}
With(a, h, e) == [k \in (DOMAIN a) \cup {h} |-> IF k = h THEN e ELSE a[k]]

\* credential files a process can start with
NetrcFiles ==
    { With(NoRecords, HOST_other, Entry("u0", "t0")),
      With(NoRecords, HOST_github, Entry("u0", "t1")),
      With(With(NoRecords, HOST_github, Entry("u0", None)), HOST_api, Entry("u0", "t1")),
      With(With(With(NoRecords, HOST_github, Entry("u0", "t1")),
                HOST_api, Entry("u0", "t2")), HOST_other, Entry("u0", "t0")) }

STR_origin == <<"o">>
STR_branch == <<"m">>

\* a repository whose current branch tracks a branch of remote r, which has
\* fetch URL u
GitWith(r, u) ==
    [branch |-> STR_branch, remote |-> r, merge |-> STR_branch,
     remotes |-> [n \in {r} |-> u]]

GitWithUrl(u) == GitWith(STR_origin, u)

\* a directory that is not a git repository
GitNotRepo ==
    [branch |-> Undef, remote |-> Undef, merge |-> Undef,
     remotes |-> [n \in {} |-> Undef]]

\* a repository with a remote whose current branch has no upstream
GitNoUpstream(u) ==
    [branch |-> STR_branch, remote |-> Undef, merge |-> Undef,
     remotes |-> [n \in {STR_origin} |-> u]]

\* git@HOST:PATH and https://HOST/PATH
SshUrl(host, path) == STR_git_at \o host \o <<":">> \o path

HttpsUrl(host, path) == STR_https \o host \o <<"/">> \o path

\* directories of the process model: no upstream, and a GitHub remote
GitSmall ==
    { GitNoUpstream(HttpsUrl(STR_github_com, <<"a", "/", "b">>)),
      GitWithUrl(SshUrl(STR_github_com, <<"a", "/", "b">> \o STR_dot_git)) }

\* owner / repo segments of remote URLs: every string of 1..MaxSegLen
\* characters, and some longer names
SegChars == {"a", ".", ":"}

SampleSegs ==
    { STR_dot_git,
      <<"a">> \o STR_dot_git,
      <<"a", ".", "G", "I", "T">>,
      STR_github_com }

Segs == (UNION {[1..n -> SegChars] : n \in 1..MaxSegLen}) \cup SampleSegs

STR_gitlab_com == <<"g", "i", "t", "l", "a", "b", ".", "c", "o", "m">>
STR_GitHub_com == <<"G", "i", "t", "h", "u", "b", ".", "c", "o", "m">>
STR_notgithub_com == <<"n", "o", "t">> \o STR_github_com
STR_githubXcom == <<"g", "i", "t", "h", "u", "b", "-", "c", "o", "m">>
STR_github_com_evil == STR_github_com \o <<".", "e", "v", "i", "l", ".", "o", "r", "g">>

Hosts ==
    { STR_github_com, STR_GitHub_com, STR_gitlab_com, STR_notgithub_com,
      STR_githubXcom, STR_github_com_evil }

UrlForms == {"ssh", "https"}

Url(form, host, path) ==
    IF form = "ssh" THEN SshUrl(host, path) ELSE HttpsUrl(host, path)

\* OWNER/REPO with or without a trailing .git
RepoPath(owner, repo, dotGit) ==
    owner \o <<"/">> \o repo \o (IF dotGit THEN STR_dot_git ELSE <<>>)

\* paths of one and of three segments, and one with a trailing '/'
OtherPaths ==
    { <<"a">>, <<"a", "/">>, <<"/", "a">>,
      <<"a", "/", "b", "/">>,
      <<"a", "/", "b", "/", "c">>,
      STR_github_com \o <<"/", "a", "/", "b">>,
      STR_github_com \o <<"/", "a">> }

UrlPaths ==
    { RepoPath(o, r, d) : o \in Segs, r \in Segs, d \in BOOLEAN } \cup OtherPaths

Urls == { Url(f, h, p) : f \in UrlForms, h \in Hosts, p \in UrlPaths }

STR_remote2 == <<"u", "/", "f">>

\* directories of the resolver model
GitInputs ==
    { GitWithUrl(u) : u \in Urls }
    \cup { GitNotRepo,
           GitNoUpstream(HttpsUrl(STR_github_com, <<"a", "/", "b">>)),
           \* the upstream is a branch of a remote named u/f
           GitWith(STR_remote2, HttpsUrl(STR_github_com, <<"a", "/", "b">>)) }

\* the `to` argument of dispatchEvent: a path, or a RepositoryRef with or
\* without repoId
TargetPath == [kind |-> "path"]

TargetRef(i) == [kind |-> "ref", owner |-> <<"a">>, repo |-> <<"c">>, repoId |-> i]

\* the calls of dispatchEvent the caller makes
DispatchInputs ==
    { [to |-> TargetPath, eventType |-> <<"g", "o">>],
      [to |-> TargetRef(Undef), eventType |-> <<"g", "o">>],
      [to |-> TargetRef(Undef), eventType |-> <<"b">>],
      [to |-> TargetRef(<<"z">>), eventType |-> <<"b">>] }

\* ------------------------------------------------------------------------
\* Events of the log
\* ------------------------------------------------------------------------
EvLoad(c) == [e |-> "netrc", completion |-> c]

EvFlow(from) == [e |-> "promptForToken", from |-> from]

EvAskCredentials == [e |-> "prompt", ask |-> "credentials"]

EvAskSave == [e |-> "prompt", ask |-> "save"]

EvAnswerCredentials == [e |-> "answer", ask |-> "credentials"]

EvAnswerSave(v) == [e |-> "answer", ask |-> "save", value |-> v]

EvGetAuthenticated(resp) == [e |-> "users.getAuthenticated", resp |-> resp]

EvWrite(mark, msg) == [e |-> "write", mark |-> mark, msg |-> msg]

EvChecked(c) == [e |-> "checkCredentials", completion |-> c]

EvSave(f) == [e |-> "netrc.save", file |-> f]

EvDispatch(a, resp) == [e |-> "repos.createDispatchEvent", args |-> a, resp |-> resp]

EvExit(code) == [e |-> "process.exit", code |-> code]

Count(l, P(_)) == Cardinality({i \in 1..Len(l) : P(l[i])})

Pending == [type |-> "pending"]

Exited(code) == [type |-> "exit", value |-> code]

NoArgs == [to |-> None, owner |-> Undef, repo |-> Undef, repoId |-> Undef, eventType |-> Undef]

NoEntered == [name |-> None, token |-> None]

NoCheck == [site |-> None, token |-> None, resp |-> None, ret |-> Pending]

\* ------------------------------------------------------------------------
\* Credential store (the netrc package, as src/index.js uses it)
\* ------------------------------------------------------------------------
\* netrc(): the records of ~/.netrc, or the error of reading it
netrc == IF unreadable THEN Throw("EACCES") ELSE Normal(netrcFile)

\* rc[h]?.password
PasswordOf(r, h) == IF h \in DOMAIN r THEN r[h].password ELSE None

\* line 48 with the two hosts exchanged: api.github.com's password first
storedToken_apiFirst(r) ==
    IF PasswordOf(r, HOST_api) # None
    THEN PasswordOf(r, HOST_api)
    ELSE PasswordOf(r, HOST_github)

\* line 48 without its `?? rc['api.github.com']?.password`
storedToken_githubOnly(r) == PasswordOf(r, HOST_github)

\* rc['github.com']?.password ?? rc['api.github.com']?.password  (line 48)
storedToken(r) ==
    IF PasswordOf(r, HOST_github) # None
    THEN PasswordOf(r, HOST_github)
    ELSE PasswordOf(r, HOST_api)

\* the test of line 49 inverted: if (token) throw
Falsy_inverted(t) == ~(t \in {None, ""})

\* !token  (line 49)
Falsy(t) == t \in {None, ""}

\* { 'github.com': { login: name, password: token } } : the loaded records
\* are not spread into the object that is saved
savedRecords_noSpread(r, name, t) == With(NoRecords, HOST_github, Entry(name, t))

\* the record saved under the API host instead of github.com
savedRecords_apiHost(r, name, t) == With(r, HOST_api, Entry(name, t))

\* { ...rc, 'github.com': { login: name, password: token } }  (line 98)
savedRecords(r, name, t) == With(r, HOST_github, Entry(name, t))

\* ------------------------------------------------------------------------
\* checkCredentials (lines 115-124)
\* ------------------------------------------------------------------------
\* checkCredentials without its catch: a failed call is rethrown
checkCredentials_rethrow(t, resp) ==
    LET ret == IF resp = RESP_ok THEN Normal(TRUE) ELSE Throw(resp)
    IN  [ret |-> ret,
         call |-> [auth |-> <<"token", t>>, resp |-> resp],
         events |-> <<EvGetAuthenticated(resp), EvChecked(ret)>>]

\* resp is what the remote get-authenticated-identity call answers
checkCredentials(t, resp) ==
    LET ret == Normal(resp = RESP_ok)
    IN  [ret |-> ret,
         call |-> [auth |-> <<"token", t>>, resp |-> resp],
         events |-> <<EvGetAuthenticated(resp)>>
                    \o (IF resp = RESP_ok THEN <<>> ELSE <<EvWrite("!", resp)>>)
                    \o <<EvChecked(ret)>>]

\* ------------------------------------------------------------------------
\* Control flow between suspension points
\* ------------------------------------------------------------------------
maxAttempts == 3

\* new octokit.Octokit({ auth: `token ${token}` })
Octokit(id, t) == [id |-> id, auth |-> <<"token", t>>]

\* the top-level call completes with c (a value, or an error for the caller)
Finish(c, lg) ==
    /\ pc' = "idle"
    /\ result' = c
    /\ log' = lg
    /\ via' = None
    /\ rc' = NoRecords
    /\ attempts' = 0
    /\ token' = None

\* process.exit(1) after the fatal message (lines 68-72)
TooManyAttempts(lg) ==
    /\ pc' = "exited"
    /\ result' = Exited(1)
    /\ log' = lg \o <<EvWrite("x", "Too many attempts"), EvExit(1)>>
    /\ via' = None
    /\ rc' = NoRecords
    /\ attempts' = 0
    /\ token' = None

\* promptForToken(recs, n) up to its first await (lines 67-86)
promptForToken(from, recs, n, lg) ==
    IF n >= maxAttempts
    THEN TooManyAttempts(lg)
    ELSE /\ pc' = "prompt75"
         /\ via' = from
         /\ rc' = recs
         /\ attempts' = n
         /\ log' = lg \o <<EvAskCredentials>>
         /\ result' = Pending
         /\ UNCHANGED token

\* getGithubAPI returns client c to its caller o (line 138 or 146)
FactoryReturn(o, c, lg) ==
    /\ returned' = Append(returned, c)
    /\ IF o = "getGithubAPI"
       THEN Finish(Normal(c), lg)
       ELSE \* dispatchEvent goes on to line 168
            /\ pc' = "dispatch168"
            /\ log' = lg
            /\ via' = None
            /\ rc' = NoRecords
            /\ attempts' = 0
            /\ token' = None
            /\ result' = Pending

\* line 141: await checkCredentials(t)
Check142(t, lg) ==
    /\ pc' = "check142"
    /\ token' = t
    /\ log' = lg
    /\ via' = None
    /\ rc' = NoRecords
    /\ attempts' = 0
    /\ result' = Pending

\* getGithubAPI up to its first await: lines 137-141, getToken 46-56
getGithubAPI(o, lg) ==
    IF github # None
    THEN FactoryReturn(o, github, lg) /\ UNCHANGED nextId
    ELSE LET l == netrc
         IN  /\ UNCHANGED <<returned, nextId>>
             /\ IF l.type = "throw"
                THEN Finish(l, lg \o <<EvLoad(l)>>)
                ELSE IF Falsy(storedToken(l.value))
                THEN promptForToken("getToken", l.value, 0,
                                    lg \o <<EvLoad(l), EvFlow("getToken")>>)
                ELSE Check142(storedToken(l.value), lg \o <<EvLoad(l)>>)

\* ------------------------------------------------------------------------
\* Actions
\* ------------------------------------------------------------------------
\* the caller invokes the default export
CallGetGithubAPI ==
    /\ pc = "idle"
    /\ calls < MaxCalls
    /\ calls' = calls + 1
    /\ op' = "getGithubAPI"
    /\ args' = NoArgs
    /\ entered' = NoEntered
    /\ lastCheck' = NoCheck
    /\ getGithubAPI("getGithubAPI", <<>>)
    /\ UNCHANGED <<envVars>>

\* line 146: construct the client for token t and return it
ReturnNewClient(o, t, lg) ==
    /\ nextId' = nextId + 1
    /\ FactoryReturn(o, Octokit(nextId, t), lg)

\* the remote API answers the validation awaited at line 142
ValidatorAnswers142 ==
    /\ pc = "check142"
    /\ \E resp \in Responses :
          LET r == checkCredentials(token, resp)
              lg == log \o r.events
              l == netrc
          IN  /\ lastCheck' = [site |-> "142", token |-> token, resp |-> resp, ret |-> r.ret]
              /\ entered' = IF r.ret.type = "normal" /\ ~r.ret.value THEN NoEntered ELSE entered
              /\ IF r.ret.type = "throw"
                 THEN Finish(r.ret, lg) /\ UNCHANGED <<returned, nextId>>
                 ELSE IF r.ret.value
                 THEN ReturnNewClient(op, token, lg)
                 ELSE \* line 143: promptForToken(), rc defaults to netrc()
                      /\ UNCHANGED <<returned, nextId>>
                      /\ IF l.type = "throw"
                         THEN Finish(l, lg \o <<EvFlow("getGithubAPI"), EvLoad(l)>>)
                         ELSE promptForToken("getGithubAPI", l.value, 0,
                                             lg \o <<EvFlow("getGithubAPI"), EvLoad(l)>>)
    /\ UNCHANGED <<envVars, op, args, calls>>

\* the user answers the username / token prompt (lines 75-86); line 88 then
\* awaits checkCredentials(token)
AnswerCredentials ==
    /\ pc = "prompt75"
    /\ \E c \in Credentials :
          /\ entered' = c
          /\ log' = log \o <<EvAnswerCredentials>>
    /\ pc' = "check88"
    /\ UNCHANGED <<envVars, op, args, calls, via, rc, attempts, token, result,
                   returned, nextId, lastCheck>>

\* the remote API answers the validation awaited at line 88
ValidatorAnswers88 ==
    /\ pc = "check88"
    /\ \E resp \in Responses :
          LET r == checkCredentials(entered.token, resp)
              lg == log \o r.events
          IN  /\ lastCheck' = [site |-> "88", token |-> entered.token, resp |-> resp, ret |-> r.ret]
              /\ entered' = IF r.ret.type = "normal" /\ ~r.ret.value THEN NoEntered ELSE entered
              /\ IF r.ret.type = "throw"
                 THEN Finish(r.ret, lg)
                 ELSE IF r.ret.value
                 THEN \* line 89: ask whether to save
                      /\ pc' = "prompt89"
                      /\ log' = lg \o <<EvAskSave>>
                      /\ UNCHANGED <<via, rc, attempts, token, result>>
                 ELSE \* line 104
                      promptForToken(via, rc, attempts + 1, lg)
    /\ UNCHANGED <<envVars, op, args, calls, returned, nextId>>

\* line 143 without its assignment (`await promptForToken()` alone): the
\* client of line 146 is built from the stored token that was rejected
AnswerSave_staleToken ==
    /\ pc = "prompt89"
    /\ \E save \in BOOLEAN :
          LET file == savedRecords(rc, entered.name, entered.token)
              lg == log \o <<EvAnswerSave(save)>>
                        \o (IF save THEN <<EvSave(file)>> ELSE <<>>)
          IN  /\ netrcFile' = IF save THEN file ELSE netrcFile
              /\ IF via = "getToken"
                 THEN Check142(entered.token, lg) /\ UNCHANGED <<returned, nextId>>
                 ELSE ReturnNewClient(op, token, lg)
    /\ UNCHANGED <<git, unreadable, github, op, args, calls, entered, lastCheck>>

\* lines 97-99 without the test of `save`: the file is written whatever the
\* user answers
AnswerSave_always ==
    /\ pc = "prompt89"
    /\ \E save \in BOOLEAN :
          LET file == savedRecords(rc, entered.name, entered.token)
              lg == log \o <<EvAnswerSave(save), EvSave(file)>>
          IN  /\ netrcFile' = file
              /\ IF via = "getToken"
                 THEN Check142(entered.token, lg) /\ UNCHANGED <<returned, nextId>>
                 ELSE ReturnNewClient(op, entered.token, lg)
    /\ UNCHANGED <<git, unreadable, github, op, args, calls, entered, lastCheck>>

\* the user answers the save confirmation (lines 89-101); promptForToken
\* returns the token to the call site that started the flow
AnswerSave ==
    /\ pc = "prompt89"
    /\ \E save \in BOOLEAN :
          LET file == savedRecords(rc, entered.name, entered.token)
              lg == log \o <<EvAnswerSave(save)>>
                        \o (IF save THEN <<EvSave(file)>> ELSE <<>>)
          IN  /\ netrcFile' = IF save THEN file ELSE netrcFile
              /\ IF via = "getToken"
                 THEN \* getToken returns; lines 141-142
                      Check142(entered.token, lg) /\ UNCHANGED <<returned, nextId>>
                 ELSE \* line 143 assigns token; line 146
                      ReturnNewClient(op, entered.token, lg)
    /\ UNCHANGED <<git, unreadable, github, op, args, calls, entered, lastCheck>>

\* `(${repoId}) ${eventType} event dispatched.`  (line 175)
STR_dispatched ==
    <<" ", "e", "v", "e", "n", "t", " ", "d", "i", "s", "p", "a", "t", "c", "h", "e", "d", ".">>

dispatchMessage(repoId, eventType) ==
    <<"(">> \o repoId \o <<")", " ">> \o eventType \o STR_dispatched

EvResolve(c) == [e |-> "resolveGithubProject", completion |-> c.type]

\* [owner, repo].join() : the default separator
defaultRepoId_comma(owner, repo, repoId) ==
    IF repoId = Undef THEN Join(<<owner, repo>>, ",") ELSE repoId

\* repoId = [owner, repo].join('/') when the reference has none  (line 165)
defaultRepoId(owner, repo, repoId) ==
    IF repoId = Undef THEN Join(<<owner, repo>>, "/") ELSE repoId

\* the caller invokes dispatchEvent(to, eventType): lines 165-167
CallDispatchEvent ==
    /\ pc = "idle"
    /\ calls < MaxCalls
    /\ calls' = calls + 1
    /\ op' = "dispatchEvent"
    /\ entered' = NoEntered
    /\ lastCheck' = NoCheck
    /\ \E in \in DispatchInputs :
       \E r \in {IF in.to.kind = "path"
                 THEN resolveGithubProject(git)
                 ELSE Normal([owner |-> in.to.owner, repo |-> in.to.repo,
                              repoId |-> in.to.repoId])} :
          LET to == in.to
              eventType == in.eventType
              lg == IF to.kind = "path" THEN <<EvResolve(r)>> ELSE <<>>
          IN  IF r.type = "throw"
              THEN /\ Finish(r, lg)
                   /\ args' = [NoArgs EXCEPT !.to = to, !.eventType = eventType]
                   /\ UNCHANGED <<returned, nextId>>
              ELSE /\ args' = [to |-> to,
                               owner |-> r.value.owner,
                               repo |-> r.value.repo,
                               repoId |-> defaultRepoId(r.value.owner, r.value.repo,
                                                        r.value.repoId),
                               eventType |-> eventType]
                   /\ getGithubAPI("dispatchEvent", lg)
    /\ UNCHANGED <<envVars>>

\* line 168 wrapped in a try whose catch ignores the failure: the
\* confirmation message is returned whatever the remote API answers
DispatchAnswers_swallow ==
    /\ pc = "dispatch168"
    /\ \E resp \in Responses :
          Finish(Normal([message |-> dispatchMessage(args.repoId, args.eventType)]),
                 log \o <<EvDispatch([owner |-> args.owner, repo |-> args.repo,
                                      event_type |-> args.eventType], resp)>>)
    /\ UNCHANGED <<envVars, op, args, calls, returned, nextId, entered, lastCheck>>

\* the remote API answers the createDispatchEvent call awaited at line 168
DispatchAnswers ==
    /\ pc = "dispatch168"
    /\ \E resp \in Responses :
          LET lg == log \o <<EvDispatch([owner |-> args.owner, repo |-> args.repo,
                                         event_type |-> args.eventType], resp)>>
          IN  IF resp = RESP_ok
              THEN Finish(Normal([message |-> dispatchMessage(args.repoId, args.eventType)]), lg)
              ELSE Finish(Throw(resp), lg)
    /\ UNCHANGED <<envVars, op, args, calls, returned, nextId, entered, lastCheck>>

\* the caller invokes resolveGithubProject(dir)
CallResolveGithubProject ==
    /\ pc = "idle"
    /\ calls < MaxCalls
    /\ calls' = calls + 1
    /\ op' = "resolveGithubProject"
    /\ args' = NoArgs
    /\ entered' = NoEntered
    /\ lastCheck' = NoCheck
    /\ \E r \in {resolveGithubProject(git)} : Finish(r, <<EvResolve(r)>>)
    /\ UNCHANGED <<envVars, returned, nextId>>

\* ------------------------------------------------------------------------
\* Specifications
\* ------------------------------------------------------------------------
InitProcess ==
    /\ github = None
    /\ pc = "idle"
    /\ op = None
    /\ args = NoArgs
    /\ via = None
    /\ rc = NoRecords
    /\ attempts = 0
    /\ entered = NoEntered
    /\ token = None
    /\ log = <<>>
    /\ lastCheck = NoCheck
    /\ result = Pending
    /\ returned = <<>>
    /\ nextId = 1
    /\ calls = 0

Init ==
    /\ git \in GitSmall
    /\ unreadable \in BOOLEAN
    /\ netrcFile \in (IF unreadable THEN {NoRecords} ELSE NetrcFiles)
    /\ InitProcess

\* resolveGithubProject over the directories of GitInputs
InitResolve ==
    /\ git \in GitInputs
    /\ unreadable = FALSE
    /\ netrcFile = NoRecords
    /\ InitProcess

NextResolve == CallResolveGithubProject

SpecResolve == InitResolve /\ [][NextResolve]_vars

Next ==
    \/ CallGetGithubAPI
    \/ ValidatorAnswers142
    \/ AnswerCredentials
    \/ ValidatorAnswers88
    \/ AnswerSave
    \/ CallDispatchEvent
    \/ DispatchAnswers
    \/ CallResolveGithubProject

Spec == Init /\ [][Next]_vars

\* ------------------------------------------------------------------------
\* Vocabulary of the properties
\* ------------------------------------------------------------------------
Last(sq) == sq[Len(sq)]

StartsWith(sq, pre) == Len(sq) >= Len(pre) /\ SubSeq(sq, 1, Len(pre)) = pre

IsLoad(ev) == ev.e = "netrc"

IsValidation(ev) == ev.e = "users.getAuthenticated"

IsPrompt(ev) == ev.e = "prompt"

IsAskSave(ev) == ev.e = "prompt" /\ ev.ask = "save"

IsAnswerSave(ev) == ev.e = "answer" /\ ev.ask = "save"

IsSave(ev) == ev.e = "netrc.save"

IsDispatch(ev) == ev.e = "repos.createDispatchEvent"

IsAcquisition(ev) == IsLoad(ev) \/ IsValidation(ev) \/ IsPrompt(ev)

Loads == SelectSeq(log, IsLoad)

Validations == SelectSeq(log, IsValidation)

\* the current call runs the client factory (directly or from dispatchEvent)
InFactory == op \in {"getGithubAPI", "dispatchEvent"}

\* the factory call of the current top-level call has returned its client
FactoryReturned ==
    /\ InFactory
    /\ \/ pc = "dispatch168"
       \/ pc = "idle" /\ op = "getGithubAPI" /\ result.type = "normal"
       \/ pc = "idle" /\ op = "dispatchEvent" /\ Count(log, IsDispatch) > 0

\* the records the first load of the current call returned
LoadedFirst == Loads[1].completion.value

\* the first load of the current call found a stored token
StoredTokenLoaded ==
    /\ InFactory
    /\ Len(Loads) >= 1
    /\ Loads[1].completion.type = "normal"
    /\ storedToken(LoadedFirst) # None

\* interactive attempts of the current call whose token the validator rejected
RejectedAttempts ==
    Cardinality({i \in 1..(Len(log) - 1) :
                    /\ log[i] = EvAnswerCredentials
                    /\ IsValidation(log[i + 1])
                    /\ log[i + 1].resp # RESP_ok})

\* ------------------------------------------------------------------------
\* Properties
\* ------------------------------------------------------------------------
\* C1: within one process, every client the factory returns after the first
\* is the identical handle (same object) as the first one returned.
C1_SecondCallSameHandle ==
    \A i \in 1..Len(returned) : returned[i] = returned[1]

\* C2: a factory call made after a client has already been returned performs
\* no credential-file load, no validation call and no interactive prompt.
C2_OnlyFirstCallAcquires ==
    (InFactory /\ Len(returned) >= (IF FactoryReturned THEN 2 ELSE 1))
        => Count(log, IsAcquisition) = 0

\* C3: when the store holds a token (github.com's, else api.github.com's) and
\* the validator accepts it, the factory call shows no prompt, writes no
\* credential file and returns a client wrapping exactly the stored token.
C3_StoredValidTokenNoPrompt ==
    (StoredTokenLoaded /\ \A i \in 1..Len(Validations) : Validations[i].resp = RESP_ok)
        => /\ Count(log, IsPrompt) = 0
           /\ Count(log, IsSave) = 0
           /\ netrcFile = LoadedFirst
           /\ pc \in {"check142", "dispatch168", "idle"}
           /\ pc # "check142" =>
                 /\ FactoryReturned
                 /\ Last(returned).auth = <<"token", storedToken(LoadedFirst)>>

C3_Witness ==
    /\ StoredTokenLoaded
    /\ PasswordOf(LoadedFirst, HOST_github) = None
    /\ Len(Validations) = 1 /\ Validations[1].resp = RESP_ok
    /\ pc = "idle" /\ op = "getGithubAPI" /\ result.type = "normal"

\* the stored token was rejected and the first interactive attempt accepted,
\* and the factory call has returned
C4_Case ==
    /\ StoredTokenLoaded
    /\ FactoryReturned
    /\ Len(Validations) >= 2
    /\ Validations[1].resp # RESP_ok
    /\ Validations[2].resp = RESP_ok

\* C4: stored token rejected, then a token accepted on the first interactive
\* attempt: exactly one save confirmation is asked in that call; on yes the
\* file is written exactly once, with the entered username and token under
\* github.com; on no the file is not written.
C4_OneConfirmationOneWrite ==
    C4_Case =>
        LET answers == SelectSeq(log, IsAnswerSave)
            saves == SelectSeq(log, IsSave)
        IN  /\ Count(log, IsAskSave) = 1
            /\ Len(answers) = 1
            /\ IF answers[1].value
               THEN /\ Len(saves) = 1
                    /\ netrcFile = saves[1].file
                    /\ HOST_github \in DOMAIN netrcFile
                    /\ netrcFile[HOST_github] = Entry(entered.name, entered.token)
                    /\ entered.name \in Names /\ entered.token \in Tokens
               ELSE /\ Len(saves) = 0
                    /\ netrcFile = Last(Loads).completion.value

C4_Witness ==
    /\ C4_Case
    /\ op = "getGithubAPI"
    /\ Count(log, IsSave) = 1
    /\ PasswordOf(LoadedFirst, HOST_github) # entered.token

\* C5: once 3 interactively entered tokens have been rejected in a factory
\* call, the process has exited with status 1 and that call wrote no file.
C5_ThreeRejectionsExit ==
    (InFactory /\ RejectedAttempts >= 3)
        => /\ pc = "exited"
           /\ result = Exited(1)
           /\ Count(log, IsSave) = 0

\* dispatchEvent was given a RepositoryRef without repoId and its remote call
\* succeeded
C6_Case ==
    /\ op = "dispatchEvent"
    /\ pc = "idle"
    /\ args.to.kind = "ref"
    /\ args.to.repoId = Undef
    /\ \E i \in 1..Len(log) : IsDispatch(log[i]) /\ log[i].resp = RESP_ok

Resolved == op = "resolveGithubProject" /\ pc = "idle"

\* the branch has an upstream on a configured remote
HasUpstreamRemote == git.remote # Undef /\ git.remote \in DOMAIN git.remotes

\* the fetch URL of the upstream's remote
UpstreamUrl == git.remotes[git.remote]

\* resolution returned exactly OWNER, REPO and OWNER/REPO
ResolvedTo(owner, repo) ==
    result = Normal([owner |-> owner, repo |-> repo,
                     repoId |-> owner \o <<"/">> \o repo])

\* the (OWNER, REPO) pairs, both non-empty and without '/', for which the
\* upstream URL is prefix OWNER/REPO or prefix OWNER/REPO.git
C7_Readings(prefix) ==
    LET parts == Split(SubSeq(UpstreamUrl, Len(prefix) + 1, Len(UpstreamUrl)), "/")
    IN  IF Len(parts) # 2 \/ parts[1] = <<>> \/ parts[2] = <<>>
        THEN {}
        ELSE {<<parts[1], parts[2]>>}
             \cup (IF Len(parts[2]) > Len(STR_dot_git) /\ EndsWith(parts[2], STR_dot_git)
                   THEN {<<parts[1], SubSeq(parts[2], 1, Len(parts[2]) - Len(STR_dot_git))>>}
                   ELSE {})

\* C7 as stated: for every non-empty OWNER and REPO without '/', an upstream
\* URL git@github.com:OWNER/REPO or https://github.com/OWNER/REPO, with or
\* without a trailing .git, resolves to OWNER, REPO and OWNER/REPO.
C7_Original ==
    (Resolved /\ HasUpstreamRemote) =>
        \A f \in UrlForms :
            LET prefix == Url(f, STR_github_com, <<>>)
            IN  StartsWith(UpstreamUrl, prefix)
                    => \A x \in C7_Readings(prefix) : ResolvedTo(x[1], x[2])

\* C7 amended: the same, for REPO that does not itself end in .git (in any
\* letter case) and an upstream remote whose name contains no '/'.
C7_ResolvesOwnerRepo ==
    (Resolved /\ HasUpstreamRemote /\ Len(Split(git.remote, "/")) = 1) =>
        \A f \in UrlForms :
            LET prefix == Url(f, STR_github_com, <<>>)
            IN  StartsWith(UpstreamUrl, prefix)
                    => \A x \in C7_Readings(prefix) :
                          ~EndsWith(LowerStr(x[2]), STR_dot_git) => ResolvedTo(x[1], x[2])

C7_Witness ==
    /\ Resolved
    /\ HasUpstreamRemote
    /\ UpstreamUrl = SshUrl(STR_github_com, RepoPath(<<"a">>, <<".", "a">>, TRUE))
    /\ ResolvedTo(<<"a">>, <<".", "a">>)

\* the host of a remote URL: between :// and the next '/', or between @ and
\* the next ':'
HostOf(u) ==
    IF StartsWith(u, STR_https)
    THEN Split(SubSeq(u, Len(STR_https) + 1, Len(u)), "/")[1]
    ELSE IF StartsWith(u, STR_git_at)
    THEN Split(SubSeq(u, Len(STR_git_at) + 1, Len(u)), ":")[1]
    ELSE Undef

\* C8: resolveGithubProject fails with the repository-resolution error
\* whenever the directory has no upstream remote or the host of the upstream
\* remote's URL is not github.com.
C8_FailsUnlessGithubHost ==
    (Resolved /\ (~HasUpstreamRemote \/ LowerStr(HostOf(UpstreamUrl)) # STR_github_com))
        => result = Throw(ERR_resolve)

\* C9: an error raised by reading the credential file does not reach the
\* caller: the factory goes on to the interactive prompt.
C9_LoadErrorNotPropagated ==
    (InFactory /\ \E i \in 1..Len(Loads) : Loads[i].completion.type = "throw")
        => /\ ~(pc = "idle" /\ result.type = "throw")
           /\ Count(log, IsPrompt) >= 1

\* C10: checkCredentials never raises: each call makes one
\* get-authenticated-identity call, returns true when it succeeds, and emits
\* the failure message and returns false when it fails.
C10_ValidatorNeverRaises ==
    /\ lastCheck.site # None => lastCheck.ret = Normal(lastCheck.resp = RESP_ok)
    /\ \A i \in 1..Len(log) :
          /\ IsValidation(log[i]) =>
                /\ i < Len(log)
                /\ IF log[i].resp = RESP_ok
                   THEN log[i + 1] = EvChecked(Normal(TRUE))
                   ELSE /\ i + 1 < Len(log)
                        /\ log[i + 1] = EvWrite("!", log[i].resp)
                        /\ log[i + 2] = EvChecked(Normal(FALSE))
          /\ log[i].e = "checkCredentials" =>
                /\ i > 1
                /\ IsValidation(log[i - 1]) \/ (i > 2 /\ IsValidation(log[i - 2]))
    /\ (op = "getGithubAPI" /\ result.type = "throw") => result.value \notin Failures

C10_Witness ==
    /\ lastCheck.site = "88"
    /\ lastCheck.resp \in Failures
    /\ lastCheck.ret = Normal(FALSE)
    /\ pc = "prompt75"

\* C11: a failed create-dispatch-event call reaches the caller of
\* dispatchEvent as that same failure, no confirmation message is returned,
\* and an invocation of dispatchEvent issues at most one dispatch call.
C11_DispatchFailurePropagates ==
    /\ Count(log, IsDispatch) <= 1
    /\ \A i \in 1..Len(log) :
          (IsDispatch(log[i]) /\ log[i].resp # RESP_ok)
              => /\ i = Len(log)
                 /\ op = "dispatchEvent"
                 /\ pc = "idle"
                 /\ result = Throw(log[i].resp)

C11_Witness ==
    /\ op = "dispatchEvent"
    /\ pc = "idle"
    /\ Count(log, IsDispatch) = 1
    /\ Last(log).resp \in Failures
    /\ result.type = "throw"

IsFlow(ev) == ev.e = "promptForToken"

\* C12: a factory call enters the interactive prompt flow at most once,
\* either from getToken because no token was stored or from getGithubAPI
\* because the stored token failed validation; the token the flow returns is
\* used for the client with no further flow.
C12_PromptFlowAtMostOnce ==
    InFactory =>
        /\ Count(log, IsFlow) <= 1
        /\ \A i \in 1..Len(log) :
              IsFlow(log[i]) =>
                  IF StoredTokenLoaded
                  THEN log[i].from = "getGithubAPI"
                  ELSE log[i].from = "getToken"

\* the step writes the credential file
WriteStep ==
    \/ netrcFile' # netrcFile
    \/ Count(log', IsSave) > Count(log, IsSave)

\* the last n events of the log
LastEvents(n) == IF Len(log) < n THEN <<>> ELSE SubSeq(log, Len(log) - n + 1, Len(log))

\* C13: the credential file is written only when, in the same prompt
\* attempt, the validator accepted the entered token and the user then
\* answered yes to the save confirmation, and the github.com record written
\* carries the entered username and the accepted token; a rejected token, a
\* declined confirmation and the stored-token path write nothing.
C13_WriteOnlyAfterAcceptAndYes ==
    [][WriteStep =>
          /\ pc = "prompt89"
          /\ lastCheck = [site |-> "88", token |-> entered.token,
                          resp |-> RESP_ok, ret |-> Normal(TRUE)]
          /\ LastEvents(4) = <<EvAnswerCredentials, EvGetAuthenticated(RESP_ok),
                               EvChecked(Normal(TRUE)), EvAskSave>>
          /\ log' = log \o <<EvAnswerSave(TRUE), EvSave(netrcFile')>>
          /\ HOST_github \in DOMAIN netrcFile'
          /\ netrcFile'[HOST_github] = Entry(entered.name, entered.token)
          /\ entered \in Credentials]_vars

C13_Witness ==
    /\ pc = "check142"
    /\ Count(log, IsSave) = 1
    /\ Last(log) = EvSave(netrcFile)
    /\ netrcFile[HOST_github] = Entry("u2", "t2")
    /\ entered = [name |-> "u2", token |-> "t2"]

\* C14: a confirmed save changes only the github.com entry: every other host
\* key of the loaded records (api.github.com included) is written with the
\* record that was loaded, and no host key is removed.
C14_SaveKeepsOtherHosts ==
    [][WriteStep =>
          LET loaded == Last(Loads).completion.value
          IN  /\ Last(Loads).completion.type = "normal"
              /\ loaded = netrcFile
              /\ DOMAIN netrcFile' = (DOMAIN loaded) \cup {HOST_github}
              /\ \A h \in (DOMAIN loaded) \ {HOST_github} : netrcFile'[h] = loaded[h]]_vars

C14_Witness ==
    /\ FactoryReturned
    /\ Count(log, IsSave) = 1
    /\ DOMAIN LoadedFirst = {HOST_github, HOST_api, HOST_other}
    /\ netrcFile[HOST_api] = LoadedFirst[HOST_api]
    /\ netrcFile[HOST_other] = LoadedFirst[HOST_other]
    /\ netrcFile[HOST_github] # LoadedFirst[HOST_github]

\* C15: when dispatchEvent is given a path whose resolution fails, the
\* resolution error reaches the caller before any credential step: that
\* invocation loads no credential file, validates nothing, prompts for nothing
\* and dispatches nothing. A dispatch call is only issued after resolution
\* (for a path) and the client factory have completed successfully.
C15_ResolveBeforeCredentials ==
    /\ (op = "dispatchEvent" /\ args.to.kind = "path" /\ ~HasUpstreamRemote)
          => /\ pc = "idle"
             /\ result = Throw(ERR_resolve)
             /\ log = <<EvResolve(Throw(ERR_resolve))>>
             /\ lastCheck = NoCheck
    /\ (op = "dispatchEvent" /\ (pc = "dispatch168" \/ Count(log, IsDispatch) > 0))
          => /\ args.to.kind = "path" => log[1] = EvResolve(Normal(TRUE))
             /\ Len(returned) >= 1
             /\ Len(Validations) >= 1
             /\ Last(Validations).resp = RESP_ok
             /\ \A i \in 1..Len(log) :
                   IsDispatch(log[i])
                       => /\ i = Len(log)
                          /\ \E j \in 1..(i - 1) : log[j] = EvChecked(Normal(TRUE))

C15_Witness ==
    /\ op = "dispatchEvent"
    /\ args.to.kind = "path"
    /\ ~HasUpstreamRemote
    /\ pc = "idle"
    /\ result = Throw(ERR_resolve)
    /\ calls = 1

\* C16: every description resolveGithubProject returns has non-empty owner
\* and repo, and repoId equal to owner, '/', repo.
C16_RepoIdIsOwnerSlashRepo ==
    (Resolved /\ result.type = "normal")
        => /\ result.value.owner # <<>>
           /\ result.value.repo # <<>>
           /\ result.value.repoId = result.value.owner \o <<"/">> \o result.value.repo

\* C17: every failure of resolveGithubProject reaches the caller as the one
\* error with the fixed message, whatever the cause (not a repository, no
\* upstream, no such remote, or a URL without owner or repo); the internal
\* NOT_GITHUB_REMOTE error never escapes.
C17_SingleResolutionError ==
    Resolved =>
        /\ result.type \in {"normal", "throw"}
        /\ result.type = "throw" => result = Throw(ERR_resolve)
        /\ git.branch = Undef => result = Throw(ERR_resolve)
        /\ ~HasUpstreamRemote => result = Throw(ERR_resolve)
        /\ \A cause \in {"exec", "NOT_GITHUB_REMOTE"} :
              resolveTry(git) = Throw(cause) => result = Throw(ERR_resolve)

C17_Witness ==
    /\ Resolved
    /\ HasUpstreamRemote
    /\ resolveTry(git) = Throw("NOT_GITHUB_REMOTE")
    /\ result = Throw(ERR_resolve)

\* a password that is present and not the empty string
NonEmpty(p) == p \notin {None, ""}

\* the position in the log of the first credential-file load
FirstLoadAt == Min({i \in 1..Len(log) : IsLoad(log[i])})

\* C18: when the loaded records hold a non-empty password under github.com
\* or api.github.com, the factory takes it as the stored token (github.com's
\* if it has one, otherwise api.github.com's) and validates it instead of
\* prompting for lack of a token; it prompts for lack of a token only when
\* neither entry holds a non-empty password.
C18_StoredTokenExtracted ==
    (InFactory /\ Len(Loads) >= 1 /\ Loads[1].completion.type = "normal") =>
        LET gh == IF HOST_github \in DOMAIN LoadedFirst
                  THEN LoadedFirst[HOST_github].password ELSE None
            api == IF HOST_api \in DOMAIN LoadedFirst
                   THEN LoadedFirst[HOST_api].password ELSE None
            expected == IF NonEmpty(gh) THEN gh ELSE api
            k == FirstLoadAt
        IN  IF NonEmpty(gh) \/ NonEmpty(api)
            THEN /\ \A i \in 1..Len(log) : log[i] # EvFlow("getToken")
                 /\ Len(log) = k => (pc = "check142" /\ token = expected)
                 /\ Len(log) > k => IsValidation(log[k + 1])
                 /\ Len(Validations) = 1
                        => (lastCheck.site = "142" /\ lastCheck.token = expected)
            ELSE /\ Len(log) > k
                 /\ log[k + 1] = EvFlow("getToken")
                 /\ Len(Validations) = 1 => lastCheck.site = "88"

C18_Witness ==
    /\ op = "dispatchEvent"
    /\ pc = "check142"
    /\ Len(Loads) = 1
    /\ Len(log) = FirstLoadAt
    /\ HOST_github \in DOMAIN LoadedFirst
    /\ LoadedFirst[HOST_github].password = None
    /\ token = LoadedFirst[HOST_api].password
    /\ token = "t1"

\* C19: whenever a factory call returns a client, the last validation call
\* made before the return was made with exactly the token the client wraps,
\* and that call succeeded.
C19_LastValidationIsClientToken ==
    FactoryReturned =>
        /\ Len(Validations) >= 1
        /\ Last(Validations).resp = RESP_ok
        /\ lastCheck.site \in {"142", "88"}
        /\ lastCheck.resp = RESP_ok
        /\ lastCheck.ret = Normal(TRUE)
        /\ Last(returned).auth = <<"token", lastCheck.token>>

C19_Witness ==
    /\ FactoryReturned
    /\ StoredTokenLoaded
    /\ lastCheck.site = "88"
    /\ lastCheck.token # storedToken(LoadedFirst)
    /\ Last(returned).auth = <<"token", lastCheck.token>>

\* the last save confirmation of the completed call was answered yes: the
\* file holds the token in `entered`
SavedLast ==
    /\ pc = "idle"
    /\ InFactory
    /\ entered.token # None
    /\ Count(log, IsAnswerSave) >= 1
    /\ Last(SelectSeq(log, IsAnswerSave)).value

====
